---------------------------- MODULE Spec2Model ----------------------------
(***************************************************************************)
(* A model of the Maccy clipboard MCP server (src/server/index.js): the    *)
(* ClipboardDB wrapper over the two SQLite tables ZHISTORYITEM and         *)
(* ZHISTORYITEMCONTENT, its text sanitizer, and the CallTool handler that  *)
(* opens one store handle per tool invocation, dispatches on the tool      *)
(* name and closes the handle.                                             *)
(*                                                                         *)
(* Text is a sequence of UTF-16 code units (numbers), binary data a        *)
(* sequence of bytes.  A column value is a record [kind, data] with kind   *)
(* "null", "text" or "blob".                                               *)
(***************************************************************************)
EXTENDS Integers, Sequences, FiniteSets, TLC

VARIABLES
  history,    \* table ZHISTORYITEM: a set of rows [id, title, app, ts, pin]
  content,    \* table ZHISTORYITEMCONTENT: a set of rows [pk, item, type, value]
  initial,    \* the two tables as they were when the server started
  call,       \* the last tool invocation (or function application) and its inputs
  events,     \* the I/O the last invocation performed, in order
  response,   \* what the last invocation handed back to its caller
  clipboard,  \* what the last invocation handed to the clipboard sink (pbcopy)
  file        \* what the last invocation wrote to the export file

vars == <<history, content, initial, call, events, response, clipboard, file>>

(***************************************************************************)
(* Bounds of the model.                                                    *)
(***************************************************************************)
MaxLen == 3        \* longest text handed to sanitizeText in SpecSanitize
MaxItems == 2      \* history entries of a generated store
MaxLimit == 2
MaxTime == 6      \* largest explicit limit argument

(***************************************************************************)
(* Generic helpers.                                                        *)
(***************************************************************************)
Min(a, b) == IF a <= b THEN a ELSE b

Range(s) == {s[i] : i \in 1..Len(s)}

RECURSIVE FilterSeq(_, _)
\* s without the elements that are in the set drop (String.replace(/[drop]/g, ''))
FilterSeq(s, drop) ==
  IF s = <<>> THEN <<>>
  ELSE IF Head(s) \in drop THEN FilterSeq(Tail(s), drop)
       ELSE <<Head(s)>> \o FilterSeq(Tail(s), drop)

SeqsUpTo(S, n) == UNION {[1..k -> S] : k \in 0..n}

NullValue == [kind |-> "null", data |-> <<>>]
Text(s) == [kind |-> "text", data |-> s]
Blob(b) == [kind |-> "blob", data |-> b]

(***************************************************************************)
(* ClipboardDB.sanitizeText, src/server/index.js lines 75-111.             *)
(***************************************************************************)
ReplacementChar == 65533                       \* U+FFFD
ControlChars == (0..8) \cup {11, 12} \cup (14..31) \cup {127}
HighSurrogates == 55296..56319                 \* \uD800-\uDBFF
LowSurrogates == 56320..57343                  \* \uDC00-\uDFFF
NonCharacters == {65534, 65535}                \* U+FFFE, U+FFFF
ZeroWidthChars == (8203..8205) \cup {65279}    \* U+200B-U+200D, U+FEFF

\* StripControl with \x7F left out of the character class
StripControlKeepsDel(s) == FilterSeq(s, ControlChars \ {127})

\* line 83: str.replace(/[\x00-\x08\x0B\x0C\x0E-\x1F\x7F]/g, '')
StripControl(s) == FilterSeq(s, ControlChars)

\* line 87: a high surrogate not followed by a low one, or a low surrogate not
\* preceded by a high one, becomes U+FFFD (the lookarounds read the input string)
ReplaceUnpaired(s) ==
  [i \in 1..Len(s) |->
     IF /\ s[i] \in HighSurrogates
        /\ ~(i < Len(s) /\ s[i + 1] \in LowSurrogates)
       THEN ReplacementChar
     ELSE IF /\ s[i] \in LowSurrogates
             /\ ~(i > 1 /\ s[i - 1] \in HighSurrogates)
       THEN ReplacementChar
     ELSE s[i]]

\* line 90 with '\x7F' as the replacement
ReplaceSurrogatesByDel(s) ==
  [i \in 1..Len(s) |-> IF s[i] \in HighSurrogates \cup LowSurrogates THEN 127 ELSE s[i]]

\* line 90: str.replace(/[\uD800-\uDFFF]/g, '\uFFFD'): every surrogate code unit
ReplaceSurrogates(s) ==
  [i \in 1..Len(s) |->
     IF s[i] \in HighSurrogates \cup LowSurrogates THEN ReplacementChar ELSE s[i]]

\* line 93
StripNonCharacters(s) == FilterSeq(s, NonCharacters)

\* line 97
StripZeroWidth(s) == FilterSeq(s, ZeroWidthChars)

\* lines 100-101: Buffer.from(str, 'utf8').toString('utf8'): a well-formed pair
\* survives the encoding, a lone surrogate is encoded as U+FFFD
Utf8RoundTrip(s) == ReplaceUnpaired(s)

\* lines 80-106 on a non-empty string
SanitizeString(s) ==
  Utf8RoundTrip(StripZeroWidth(StripNonCharacters(
    ReplaceSurrogates(ReplaceUnpaired(StripControl(s))))))

\* JavaScript truthiness of a column value: null and '' are falsy; a Buffer is an
\* object, hence truthy even when empty
Truthy(v) == \/ v.kind = "blob"
             \/ v.kind = "text" /\ v.data # <<>>

\* Buffer.toString(): UTF-8 decoding, for bytes that are ASCII (themselves) or
\* 0xFF (never part of a well-formed sequence, decoded as U+FFFD)
Utf8Decode(b) == [i \in 1..Len(b) |-> IF b[i] < 128 THEN b[i] ELSE ReplacementChar]

\* line 80 / value.toString()
valueToString(v) == IF v.kind = "blob" THEN Utf8Decode(v.data) ELSE v.data

\* sanitizeText(text): line 76 returns a falsy argument as it is
sanitizeText(v) == IF ~Truthy(v) THEN v ELSE Text(SanitizeString(valueToString(v)))

(***************************************************************************)
(* The store as SQLite sees it.                                            *)
(***************************************************************************)
EpochOffset == 978307200     \* seconds from 1970-01-01 to 2001-01-01

\* the content columns of a joined row of an entry that has no content row
NoContent == [pk |-> 0, item |-> 0, type |-> "NULL", value |-> NullValue]

\* content-type tests: the tags the model's stores use
ExactImageTypes == {"public.png", "public.jpeg", "public.tiff", "com.apple.NSImage"}
\* ZTYPE.startsWith('image/'): JavaScript compares case-sensitively
StartsWithImage(t) == t \in {"image/gif"}
\* ZTYPE LIKE 'image/%': SQLite's LIKE ignores the case of ASCII letters
SqlLikeImage(t) == t \in {"image/gif", "Image/GIF"}

Lower(c) == IF c \in 65..90 THEN c + 32 ELSE c

RECURSIVE LikeMatch(_, _)
\* SQLite's  text LIKE pattern : % matches any run of characters, _ any one
\* character, and ASCII letters match whatever their case
LikeMatch(p, s) ==
  IF p = <<>> THEN s = <<>>
  ELSE IF Head(p) = 37
    THEN LikeMatch(Tail(p), s) \/ (s # <<>> /\ LikeMatch(p, Tail(s)))
  ELSE /\ s # <<>>
       /\ (Head(p) = 95 \/ Lower(Head(p)) = Lower(Head(s)))
       /\ LikeMatch(Tail(p), Tail(s))

\* column LIKE ? : NULL matches nothing; a BLOB is matched as the text of its bytes
SqlLike(v, pattern) == v.kind # "null" /\ LikeMatch(pattern, v.data)

\* `%${query}%`
SearchPattern(query) == <<37>> \o query \o <<37>>

RECURSIVE SortedDesc(_)
\* every order in which ORDER BY ZLASTCOPIEDAT DESC may return the rows S: rows
\* with equal timestamps come in any order
SortedDesc(S) ==
  IF S = {} THEN {<<>>}
  ELSE UNION {{<<m>> \o t : t \in SortedDesc(S \ {m})} :
                m \in {x \in S : \A y \in S : y.h.ts <= x.h.ts}}

\* LIMIT n, for n >= 0
Take(s, n) == SubSeq(s, 1, Min(n, Len(s)))

RECURSIVE SeqByPk(_)
\* the rows of a single-table SELECT, in rowid order
SeqByPk(S) ==
  IF S = {} THEN <<>>
  ELSE LET m == CHOOSE x \in S : \A y \in S : x.pk <= y.pk
       IN <<m>> \o SeqByPk(S \ {m})

\* h LEFT JOIN c ON h.Z_PK = c.ZITEM
\* an inner join: an entry without fragments has no row
InnerJoinRows(db) ==
  {r \in [h : db.history, c : db.content] : r.c.item = r.h.id}

JoinRows(db) ==
  {r \in [h : db.history, c : db.content] : r.c.item = r.h.id}
  \cup {[h |-> h, c |-> NoContent] :
          h \in {x \in db.history : \A c \in db.content : c.item # x.id}}

(***************************************************************************)
(* A JavaScript object used as a map from content type to value: a         *)
(* sequence of [type, value] in insertion order, one entry per type.       *)
(***************************************************************************)
MapHas(m, k) == \E i \in 1..Len(m) : m[i].type = k

MapGet(m, k) ==
  IF MapHas(m, k) THEN m[CHOOSE i \in 1..Len(m) : m[i].type = k].value
  ELSE NullValue     \* undefined: falsy

MapPut(m, k, v) ==
  IF MapHas(m, k)
    THEN [i \in 1..Len(m) |-> IF m[i].type = k THEN [type |-> k, value |-> v] ELSE m[i]]
    ELSE Append(m, [type |-> k, value |-> v])

MapKeys(m) == [i \in 1..Len(m) |-> m[i].type]

\* convertTimestamp without the offset
convertTimestampAsIs(maccyTimestamp) == maccyTimestamp

\* convertTimestamp, lines 114-118: the Date, as seconds since 1970-01-01
convertTimestamp(maccyTimestamp) == maccyTimestamp + EpochOffset

\* the fields every reader copies from a history row (lines 190-198, 257-265)
ItemData(h, title, contentMap) ==
  [id |-> h.id, title |-> title, application |-> h.app,
   lastCopied |-> convertTimestamp(h.ts), copyCount |-> h.copies,
   pinned |-> (h.pin # "NULL"), content |-> contentMap]

(***************************************************************************)
(* Arguments.  An optional argument is [given, v]; a date is the number of *)
(* seconds since 1970-01-01 that Date.getTime() / 1000 yields.             *)
(***************************************************************************)
Arg(v) == [given |-> TRUE, v |-> v]
NoNumber == [given |-> FALSE, v |-> 0]
NoDateRange == [given |-> FALSE, since |-> NoNumber, until |-> NoNumber]

DefaultLimit == 10

\* `limit = 10` in a parameter list or a destructuring: the default replaces undefined
LimitOf(a) == IF a.given THEN a.v ELSE DefaultLimit

\* the outcome of a ClipboardDB method: whether it threw and with what message
\* (the pieces of the template literal that builds it),
\* its return value, the I/O it performed in order, and the tables afterwards
Returned(value, ops, db) ==
  [threw |-> FALSE, error |-> <<>>, value |-> value, ops |-> ops,
   history |-> db.history, content |-> db.content]

Threw(error, ops, db) ==
  [threw |-> TRUE, error |-> error, value |-> <<>>, ops |-> ops,
   history |-> db.history, content |-> db.content]

Repeat(x, n) == [i \in 1..n |-> x]

\* n SELECTs in a row, of which the failAt-th (if any) is rejected by SQLite
Selects(n, failAt) == Repeat("select", IF failAt \in 1..n THEN failAt ELSE n)

\* the WHERE clause searching the value of a fragment of any type
SearchWhereAnyType(r, query, useRegex, dateRange, appFilter) ==
  /\ \/ SqlLike(r.h.title, SearchPattern(query))
     \/ SqlLike(r.c.value, SearchPattern(query))
  /\ dateRange.given =>
       /\ dateRange.since.given => r.h.ts >= dateRange.since.v - EpochOffset
       /\ dateRange.until.given => r.h.ts <= dateRange.until.v - EpochOffset
  /\ appFilter # "" => r.h.app = appFilter

(***************************************************************************)
(* ClipboardDB.searchClipboard, lines 134-218.                             *)
(***************************************************************************)
\* lines 144-173: the WHERE clause, on one joined row
SearchWhere(r, query, useRegex, dateRange, appFilter) ==
  /\ IF useRegex
       THEN \/ SqlLike(r.h.title, SearchPattern(query))
            \/ /\ r.c.type = "public.utf8-plain-text"
               /\ SqlLike(r.c.value, SearchPattern(query))
       ELSE \/ SqlLike(r.h.title, SearchPattern(query))
            \/ /\ r.c.type = "public.utf8-plain-text"
               /\ SqlLike(r.c.value, SearchPattern(query))
  /\ dateRange.given =>
       /\ dateRange.since.given => r.h.ts >= dateRange.since.v - EpochOffset
       /\ dateRange.until.given => r.h.ts <= dateRange.until.v - EpochOffset
  /\ appFilter # "" => r.h.app = appFilter

\* line 137 without DISTINCT: one row for every joined row
SelectAll(rows) == rows

\* line 137: SELECT DISTINCT over the columns of h only
SelectDistinct(rows) == {[h |-> r.h, c |-> NoContent] : r \in rows}

\* lines 136-176: the orders in which the history query may return its rows
SearchQuery(db, query, limit, useRegex, dateRange, appFilter) ==
  {Take(o, limit) :
     o \in SortedDesc(SelectDistinct(
             {r \in JoinRows(db) : SearchWhere(r, query, useRegex, dateRange, appFilter)}))}

RECURSIVE SearchContent(_, _)
\* lines 201-212: group the content rows of one item
SearchContent(rows, m) ==
  IF rows = <<>> THEN m
  ELSE LET r == Head(rows)
       IN SearchContent(Tail(rows),
            IF r.value.kind = "null" THEN m
            ELSE IF r.value.kind = "blob" THEN MapPut(m, r.type, r.value)
            ELSE MapPut(m, r.type, sanitizeText(Text(valueToString(r.value)))))

\* lines 183-214: one result item
SearchItem(db, h) ==
  ItemData(h, h.title, SearchContent(SeqByPk({c \in db.content : c.item = h.id}), <<>>))

\* historyItems is the rows the history query returned; failAt is the statement
\* SQLite rejects (0: none)
searchClipboard(db, historyItems, failAt) ==
  IF failAt \in 1..(1 + Len(historyItems))
    THEN Threw(<<"SQLITE_ERROR">>, Selects(1 + Len(historyItems), failAt), db)
    ELSE Returned([i \in 1..Len(historyItems) |-> SearchItem(db, historyItems[i].h)],
                  Selects(1 + Len(historyItems), 0), db)

(***************************************************************************)
(* ClipboardDB.getRecentItems, lines 220-305.                              *)
(***************************************************************************)
\* line 223
\* the history query fetching limit rows whatever excludeImages is
FetchLimitNoWindow(limit, excludeImages) == limit

FetchLimit(limit, excludeImages) == IF excludeImages THEN limit * 3 ELSE limit

\* lines 225-239: the orders in which the history query may return its rows
RecentQuery(db, limit, application, excludeImages) ==
  {Take(o, FetchLimit(limit, excludeImages)) :
     o \in SortedDesc({[h |-> h, c |-> NoContent] :
             h \in {x \in db.history : application # "" => x.app = application}})}

\* lines 244-255: the content rows of one item
RecentContentRows(db, id, excludeImages) ==
  SeqByPk({c \in db.content :
             /\ c.item = id
             /\ excludeImages => c.type \notin ExactImageTypes /\ ~SqlLikeImage(c.type)})

RECURSIVE RecentContent(_, _, _)
\* lines 267-291
RecentContent(rows, excludeImages, m) ==
  IF rows = <<>> THEN m
  ELSE LET r == Head(rows)
       IN RecentContent(Tail(rows), excludeImages,
            IF r.value.kind = "null" THEN m
            ELSE IF excludeImages /\ (r.type \in ExactImageTypes \/ StartsWithImage(r.type))
              THEN m
            ELSE IF r.value.kind = "blob" THEN MapPut(m, r.type, r.value)
            ELSE MapPut(m, r.type, sanitizeText(Text(valueToString(r.value)))))

RecentItem(db, h, excludeImages) ==
  ItemData(h, h.title, RecentContent(RecentContentRows(db, h.id, excludeImages), excludeImages, <<>>))

\* line 294 without its `|| itemData.title`
KeepRecentContentOnly(itemData) == itemData.content # <<>>

\* line 294: Object.keys(itemData.content).length > 0 || itemData.title
KeepRecent(itemData) == itemData.content # <<>> \/ Truthy(itemData.title)

RECURSIVE RecentLoop(_, _, _, _, _, _)
\* lines 243-302: the loop over historyItems from index i on; examined counts the
\* items whose content was queried
RecentLoop(db, historyItems, i, limit, excludeImages, results) ==
  IF i > Len(historyItems) THEN [results |-> results, examined |-> i - 1]
  ELSE LET itemData == RecentItem(db, historyItems[i].h, excludeImages)
           pushed == IF KeepRecent(itemData) THEN Append(results, itemData) ELSE results
       IN IF KeepRecent(itemData) /\ Len(pushed) >= limit
            THEN [results |-> pushed, examined |-> i]
            ELSE RecentLoop(db, historyItems, i + 1, limit, excludeImages, pushed)

getRecentItems(db, historyItems, limit, excludeImages, failAt) ==
  LET run == RecentLoop(db, historyItems, 1, limit, excludeImages, <<>>)
  IN IF failAt \in 1..(1 + run.examined)
       THEN Threw(<<"SQLITE_ERROR">>, Selects(1 + run.examined, failAt), db)
       ELSE Returned(run.results, Selects(1 + run.examined, 0), db)

(***************************************************************************)
(* ClipboardDB.getItemById and copyToClipboard, lines 338-398.             *)
(***************************************************************************)
\* a test of lines 364-366 that takes no type for an image type
NoImageType(t) == FALSE

IsImageType(t) == t \in ExactImageTypes \/ StartsWithImage(t)

RECURSIVE ByIdContent(_, _)
\* lines 361-375, over the content columns of the joined rows
ByIdContent(rows, m) ==
  IF rows = <<>> THEN m
  ELSE LET r == Head(rows)
       IN ByIdContent(Tail(rows),
            IF ~(r.type # "NULL" /\ Truthy(r.value)) THEN m
            ELSE IF IsImageType(r.type)
              THEN IF r.value.kind = "blob" THEN MapPut(m, r.type, r.value) ELSE m
            \* row.ZVALUE?.toString() || row.ZVALUE
            ELSE IF valueToString(r.value) # <<>>
              THEN MapPut(m, r.type, sanitizeText(Text(valueToString(r.value))))
              ELSE MapPut(m, r.type, sanitizeText(r.value)))

\* value: [found |-> FALSE] stands for null
getItemById(db, id, failAt) ==
  IF failAt = 1 THEN Threw(<<"SQLITE_ERROR">>, <<"select">>, db)
  ELSE LET rows == {r \in JoinRows(db) : r.h.id = id}
       IN IF rows = {} THEN Returned([found |-> FALSE], <<"select">>, db)
          ELSE LET h == (CHOOSE r \in rows : TRUE).h
               IN Returned([found |-> TRUE,
                            item |-> ItemData(h, sanitizeText(h.title),
                                       ByIdContent(SeqByPk({r.c : r \in rows}), <<>>))],
                           <<"select">>, db)

\* a || b on values
OrElse(a, b) == IF Truthy(a) THEN a ELSE b

\* lines 385-387
CopyText(item) ==
  OrElse(MapGet(item.content, "public.utf8-plain-text"),
         OrElse(MapGet(item.content, "public.text"), item.title))

\* failAt 1: the SELECT fails; failAt 2: pbcopy fails
copyToClipboard(db, itemId, failAt) ==
  LET got == getItemById(db, itemId, failAt)
  IN IF got.threw THEN got
     ELSE IF ~got.value.found THEN Threw(<<"Item with ID ", itemId, " not found">>, got.ops, db)
     ELSE IF ~Truthy(CopyText(got.value.item))
       THEN Threw(<<"No text content found to copy">>, got.ops, db)
     ELSE IF failAt = 2
       THEN Threw(<<"Failed to copy to clipboard: ", "ENOENT">>, got.ops \o <<"pbcopy">>, db)
     ELSE Returned([success |-> TRUE, content |-> valueToString(CopyText(got.value.item))],
                   got.ops \o <<"pbcopy">>, db)

(***************************************************************************)
(* ClipboardDB.pinItem, unpinItem and clearHistory, lines 400-427.         *)
(***************************************************************************)
\* an UPDATE without its WHERE clause
SetPinEverywhere(db, itemId, pin) ==
  [history |-> {[h EXCEPT !.pin = pin] : h \in db.history}, content |-> db.content]

SetPin(db, itemId, pin) ==
  [history |-> {IF h.id = itemId THEN [h EXCEPT !.pin = pin] ELSE h : h \in db.history},
   content |-> db.content]

\* the marker is new Date().toISOString(): some non-null text
pinItem(db, itemId, failAt) ==
  IF failAt = 1 THEN Threw(<<"SQLITE_ERROR">>, <<"update">>, db)
  ELSE Returned([success |-> TRUE, action |-> "pinned"], <<"update">>, SetPin(db, itemId, "iso"))

unpinItem(db, itemId, failAt) ==
  IF failAt = 1 THEN Threw(<<"SQLITE_ERROR">>, <<"update">>, db)
  ELSE Returned([success |-> TRUE, action |-> "unpinned"], <<"update">>, SetPin(db, itemId, "NULL"))

\* JavaScript truthiness of a JSON argument, written as its source text
JsTruthy(j) == j \notin {"undefined", "null", "false", "0", "''"}

\* lines 417-425: DELETE FROM ZHISTORYITEM [WHERE ZLASTCOPIEDAT < ?]
DeleteHistory(db, beforeDate) ==
  [history |-> {h \in db.history : beforeDate.given /\ ~(h.ts < beforeDate.v - EpochOffset)},
   content |-> db.content]

\* line 426 reads result.changes, where result is what the promisified db.run
\* resolved with.  That is the sqlite3 binding's business: when it calls back with
\* the error alone (the change count being on `this`), result is undefined and
\* the read throws once the DELETE has run.  runResolves says which.
clearHistory(db, beforeDate, confirm, failAt, runResolves) ==
  IF ~JsTruthy(confirm)
    THEN Threw(<<"This action requires confirmation. Set confirm=true to proceed.">>, <<>>, db)
  ELSE IF failAt = 1 THEN Threw(<<"SQLITE_ERROR">>, <<"delete">>, db)
  ELSE IF ~runResolves
    THEN Threw(<<"Cannot read properties of undefined (reading 'changes')">>, <<"delete">>,
               DeleteHistory(db, beforeDate))
  ELSE Returned([success |-> TRUE,
                 deletedCount |-> Cardinality(db.history \ DeleteHistory(db, beforeDate).history)],
                <<"delete">>, DeleteHistory(db, beforeDate))

(***************************************************************************)
(* ClipboardDB.exportHistory, lines 429-524.                               *)
(***************************************************************************)
\* line 482: the text `[Binary data: ${n} bytes]`, kept as a marker and n
BinaryPlaceholder(n) == Text(<<91, 66, n>>)

RECURSIVE ExportContent(_, _)
\* lines 478-486, over the content columns of the joined rows of one entry
ExportContent(rows, m) ==
  IF rows = <<>> THEN m
  ELSE LET r == Head(rows)
       IN ExportContent(Tail(rows),
            IF ~(r.type # "NULL" /\ Truthy(r.value)) THEN m
            ELSE IF r.type \in {"public.png", "public.jpeg", "public.tiff"}
                    \/ StartsWithImage(r.type)
              THEN MapPut(m, r.type, BinaryPlaceholder(Len(r.value.data)))
            ELSE IF valueToString(r.value) # <<>>
              THEN MapPut(m, r.type, sanitizeText(Text(valueToString(r.value))))
              ELSE MapPut(m, r.type, sanitizeText(r.value)))

\* lines 449-459: the date filter, on one row
InDateRange(h, dateRange) ==
  dateRange.given =>
    /\ dateRange.since.given => h.ts >= dateRange.since.v - EpochOffset
    /\ dateRange.until.given => h.ts <= dateRange.until.v - EpochOffset

RECURSIVE SeqById(_)
\* Object.values(items): the keys are integers, which an object enumerates in
\* ascending numeric order whatever the order of insertion
SeqById(S) ==
  IF S = {} THEN <<>>
  ELSE LET m == CHOOSE x \in S : \A y \in S : x.id <= y.id
       IN <<m>> \o SeqById(S \ {m})

\* lines 464-489
ExportItems(db, dateRange) ==
  SeqById({ItemData(h, sanitizeText(h.title),
             ExportContent(SeqByPk({c \in db.content : c.item = h.id}), <<>>)) :
           h \in {x \in db.history : InDateRange(x, dateRange)}})

\* format.toLowerCase(), on the format names the model uses
LowerFormat(format) == IF format = "JSON" THEN "json" ELSE format

\* lines 499 and 507: the text column of a csv or txt row
ExportText(item) ==
  OrElse(MapGet(item.content, "public.utf8-plain-text"), OrElse(item.title, Text(<<>>)))

\* lines 492-513: what is written for each item
ExportData(format, itemArray) ==
  [format |-> LowerFormat(format),
   rows |-> [i \in 1..Len(itemArray) |->
               IF LowerFormat(format) = "json" THEN itemArray[i]
               ELSE [id |-> itemArray[i].id, text |-> ExportText(itemArray[i])]]]

\* dirExists: whether fs.access(dir) succeeds; failAt 1: the SELECT fails;
\* failAt 2: fs.writeFile fails
exportHistory(db, format, dateRange, dirExists, failAt) ==
  IF ~dirExists THEN Threw(<<"Directory does not exist: ", "dir">>, <<"fs.access">>, db)
  ELSE IF failAt = 1 THEN Threw(<<"SQLITE_ERROR">>, <<"fs.access", "select">>, db)
  ELSE IF LowerFormat(format) \notin {"json", "csv", "txt"}
    THEN Threw(<<"Unsupported format: ", format, ". Supported formats: json, csv, txt">>,
               <<"fs.access", "select">>, db)
  ELSE IF failAt = 2
    THEN Threw(<<"EACCES">>, <<"fs.access", "select", "fs.writeFile">>, db)
  ELSE Returned([success |-> TRUE, itemCount |-> Len(ExportItems(db, dateRange)),
                 data |-> ExportData(format, ExportItems(db, dateRange))],
                <<"fs.access", "select", "fs.writeFile">>, db)

(***************************************************************************)
(* ClipboardDB.getStatistics, lines 307-332.                               *)
(***************************************************************************)
\* `x ? convert(x) : null`: NULL (an empty table) and 0 are falsy
StatDate(S, t) == IF S = {} \/ t = 0 THEN NoNumber ELSE Arg(convertTimestamp(t))

getStatistics(db, failAt) ==
  IF failAt \in 1..4 THEN Threw(<<"SQLITE_ERROR">>, Selects(4, failAt), db)
  ELSE LET T == {h.ts : h \in db.history}
       IN Returned(
            [totalItems |-> Cardinality(db.history),
             topApplications |->
               {[application |-> a,
                 itemCount |-> Cardinality({h \in db.history : h.app = a})] :
                  a \in {h.app : h \in db.history}},
             oldestItem |-> StatDate(T, IF T = {} THEN 0 ELSE CHOOSE t \in T : \A u \in T : t <= u),
             newestItem |-> StatDate(T, IF T = {} THEN 0 ELSE CHOOSE t \in T : \A u \in T : t >= u)],
            Selects(4, 0), db)

(***************************************************************************)
(* formatClipboardItem, lines 727-840, and the responses of the handler.   *)
(***************************************************************************)
\* lines 739-741: item.content is always an object here
SummaryText(item) ==
  OrElse(MapGet(item.content, "public.utf8-plain-text"),
         OrElse(MapGet(item.content, "public.text"), item.title))

\* lines 804-808
MimeType(t) ==
  CASE t = "public.png" -> "image/png"
    [] t = "public.jpeg" -> "image/jpeg"
    [] t = "public.tiff" -> "image/tiff"
    [] t = "com.apple.NSImage" -> "image/png"
    [] OTHER -> t

\* lines 750-756: the text block of an item; the preview is the text itself for
\* the short texts of the model (substring(0, 100))
ItemBlock(item) ==
  [type |-> "text", id |-> item.id, text |-> valueToString(SummaryText(item)),
   info |-> [contentTypes |-> MapKeys(item.content), pinned |-> item.pinned,
             hasImages |-> \E i \in 1..Len(item.content) : IsImageType(item.content[i].type)]]

\* a failure while an item is formatted: kind "format" is an exception raised in
\* lines 729-756 (caught on line 827), kind "encode" one raised while an image
\* is encoded in lines 767-799 (caught on line 810); id is the item it strikes
NoFailure == [kind |-> "none", id |-> 0]

Strikes(failure, item, kind) == failure.kind = kind /\ failure.id = item.id

\* lines 811-814: the text block that stands for an image that could not be encoded
ImageErrorBlock(item, e) ==
  [type |-> "text", id |-> item.id, contentType |-> e.type, size |-> Len(e.value.data),
   error |-> <<"Image content (", e.type, ") - Size: ", Len(e.value.data), " bytes [Error: ",
               "error.message", "]">>]

\* lines 761-817: one image block per image-typed entry of the map; data stands
\* for the base64 text of the bytes
ImageBlocks(item, failure) ==
  LET idx == SelectSeq([i \in 1..Len(item.content) |-> i],
                       LAMBDA i : IsImageType(item.content[i].type))
  IN [k \in 1..Len(idx) |->
        IF Strikes(failure, item, "encode") THEN ImageErrorBlock(item, item.content[idx[k]])
        ELSE [type |-> "image", id |-> item.id, text |-> item.content[idx[k]].value.data,
              info |-> MimeType(item.content[idx[k]].type)]]

\* lines 835-838: the fallback of the catch block
FormatErrorBlock(item) ==
  [type |-> "text", id |-> item.id,
   error |-> <<"Error formatting item ", item.id, ": ", "error.message">>]

\* formatClipboardItem whose catch block returns an empty array
formatClipboardItemOmitting(item, includeImages, failure) ==
  IF Strikes(failure, item, "format") THEN <<>>
  ELSE IF includeImages THEN <<ItemBlock(item)>> \o ImageBlocks(item, failure)
  ELSE <<ItemBlock(item)>>

formatClipboardItem(item, includeImages, failure) ==
  IF Strikes(failure, item, "format") THEN <<FormatErrorBlock(item)>>
  ELSE IF includeImages THEN <<ItemBlock(item)>> \o ImageBlocks(item, failure)
  ELSE <<ItemBlock(item)>>

RECURSIVE FormatAll(_, _, _)
\* for (const item of results) content.push(...formatClipboardItem(item, ...))
FormatAll(results, includeImages, failure) ==
  IF results = <<>> THEN <<>>
  ELSE formatClipboardItem(Head(results), includeImages, failure)
         \o FormatAll(Tail(results), includeImages, failure)

\* a response: the text of its first block, the blocks that follow it, and whether
\* JSON.stringify accepts it
\* a response whose first content block is a text, given as the pieces of the
\* template literal that builds it
Response(text, blocks, serializable) ==
  [kind |-> "returned", isError |-> FALSE, text |-> <<text>>, blocks |-> blocks,
   serializable |-> serializable]

\* lines 1091-1099: text: `Error: ${error.message}`
ErrorResponse(message) ==
  [kind |-> "returned", isError |-> TRUE, text |-> <<"Error: ">> \o message, blocks |-> <<>>,
   serializable |-> TRUE]

\* an exception that leaves the handler: nothing is returned
Propagated(message) ==
  [kind |-> "exception", isError |-> FALSE, text |-> <<message>>, blocks |-> <<>>,
   serializable |-> TRUE]

NoResponse ==
  [kind |-> "none", isError |-> FALSE, text |-> <<>>, blocks |-> <<>>, serializable |-> TRUE]

\* lines 883-899 and 931-947: JSON.stringify(response) in a try whose catch throws
Validated(res, text, blocks, serializable) ==
  IF res.threw THEN res
  ELSE IF ~serializable THEN [res EXCEPT !.threw = TRUE, !.error = <<"Response serialization failed: ", "jsonError.message">>]
  ELSE [res EXCEPT !.value = Response(text, blocks, TRUE)]

\* a response returned as it was assembled (no JSON.stringify before the return)
Unvalidated(res, text, blocks, serializable) ==
  IF res.threw THEN res ELSE [res EXCEPT !.value = Response(text, blocks, serializable)]

(***************************************************************************)
(* The CallTool handler, lines 843-1110.                                   *)
(***************************************************************************)
\* line 852
ReadOnly(name) ==
  name \notin {"copy_to_clipboard", "pin_item", "unpin_item", "clear_history"}

\* line 853 (the mode of line 63)
OpenEvent(name) == IF ReadOnly(name) THEN "open:readonly" ELSE "open:readwrite"

\* HandlerEvents with db.close() as the last statement of the try block instead of
\* in a finally block: an exception skips it
HandlerEventsCloseInTry(name, body) ==
  <<OpenEvent(name)>> \o body.ops \o (IF body.threw THEN <<>> ELSE <<"close">>)

\* lines 853-1109: the handle is opened, the case of the switch runs (body is its
\* outcome) and the finally block closes the handle
HandlerEvents(name, body) == <<OpenEvent(name)>> \o body.ops \o <<"close">>

\* lines 1083-1106: the catch block turns whatever the try block threw into a response
HandlerResponse(body) == IF body.threw THEN ErrorResponse(body.error) ELSE body.value

Db == [history |-> history, content |-> content]

NoFile == [format |-> "none", rows |-> <<>>]
NoSinks == [clipboard |-> <<>>, file |-> NoFile]

\* One invocation.  c is the request and the faults it meets; body is the outcome of
\* the case of the switch.  A failure of line 853 is outside the try statement.
Invoke(c, body, sinks) ==
  /\ call' = c
  /\ IF c.fault = "open"
       THEN /\ events' = <<>>
            /\ response' = Propagated("SQLITE_CANTOPEN")
            /\ UNCHANGED <<history, content>>
       ELSE /\ events' = HandlerEvents(c.tool, body)
            /\ response' = HandlerResponse(body)
            /\ history' = body.history
            /\ content' = body.content
  /\ clipboard' = IF c.fault # "open" /\ ~body.threw THEN sinks.clipboard ELSE <<>>
  /\ file' = IF c.fault # "open" /\ ~body.threw THEN sinks.file ELSE NoFile

\* `const { ... } = request.params.arguments` with no arguments in the request
NoArguments == Threw(<<"Cannot destructure property of undefined">>, <<>>, Db)

\* the formatting failure a fault stands for
FailureOf(fault, failing) ==
  IF fault \in {"format", "encode"} THEN [kind |-> fault, id |-> failing] ELSE NoFailure

\* the items a formatting failure may strike (0: the fault is of another kind)
Failing(fault) == IF fault \in {"format", "encode"} THEN 1..MaxItems ELSE {0}

\* the statement a fault makes fail (0: none)
FailAt(fault) == CASE fault = "io1" -> 1 [] fault = "io2" -> 2 [] OTHER -> 0

(***************************************************************************)
(* Stores.  A shape is the title and the content fragments of an entry.    *)
(***************************************************************************)
Frag(type, value) == [type |-> type, value |-> value]
Shape(title, frags) == [title |-> title, frags |-> frags]

\* the rows of an entry with id i: d gives its shape, timestamp and application
HistoryRow(i, d) ==
  [id |-> i, title |-> d.shape.title, app |-> d.app, ts |-> d.ts, pin |-> "NULL", copies |-> 1]

ContentRows(i, d) ==
  {[pk |-> 10 * i + k, item |-> i, type |-> d.shape.frags[k].type,
    value |-> d.shape.frags[k].value] : k \in 1..Len(d.shape.frags)}

\* the store whose entries 1..Len(ds) are described by the sequence ds
Store(ds) ==
  [history |-> {HistoryRow(i, ds[i]) : i \in 1..Len(ds)},
   content |-> UNION {ContentRows(i, ds[i]) : i \in 1..Len(ds)}]

TextEntry == Shape(Text(<<97, 98>>), <<Frag("public.utf8-plain-text", Text(<<97, 0, 98>>))>>)
ImageEntry == Shape(NullValue, <<Frag("public.png", Blob(<<137, 80>>))>>)
TitleEntry == Shape(Text(<<97>>), <<>>)

\* the store the server starts with in Spec: MaxItems entries, copied one second
\* apart, cycling through a text entry, an image-only entry and a title-only entry
HandlerStore ==
  Store([i \in 1..MaxItems |->
           [shape |-> CASE i % 3 = 1 -> TextEntry [] i % 3 = 2 -> ImageEntry [] OTHER -> TitleEntry,
            ts |-> i, app |-> IF i % 2 = 1 THEN "com.a" ELSE "com.b"]])

NoCall == [tool |-> "none", fault |-> "none"]

Init ==
  /\ history = HandlerStore.history
  /\ content = HandlerStore.content
  /\ initial = HandlerStore
  /\ call = NoCall
  /\ events = <<>>
  /\ response = NoResponse
  /\ clipboard = <<>>
  /\ file = NoFile

(***************************************************************************)
(* The tools: one action per case of the switch, lines 856-1082.           *)
(***************************************************************************)
HandlerQueries == {<<97>>, <<122>>}
HandlerDateRanges ==
  {NoDateRange,
   [given |-> TRUE, since |-> Arg(EpochOffset + 2), until |-> NoNumber],
   [given |-> TRUE, since |-> NoNumber, until |-> Arg(EpochOffset + 1)]}

SearchClipboardTool ==
  \E fault \in {"none", "open", "args", "io1", "io2", "serialize", "format", "encode"},
     query \in HandlerQueries, use_regex \in BOOLEAN, dateRange \in HandlerDateRanges :
    \E failing \in Failing(fault),
       historyItems \in SearchQuery(Db, query, LimitOf(NoNumber), use_regex, dateRange, "") :
      LET res == searchClipboard(Db, historyItems, FailAt(fault))
      IN /\ Invoke([tool |-> "search_clipboard", fault |-> fault, query |-> query,
                       limit |-> NoNumber, use_regex |-> use_regex, dateRange |-> dateRange,
                       app_filter |-> "", failing |-> failing],
                      IF fault = "args" THEN NoArguments
                      ELSE Validated(res, "Found clipboard items matching", FormatAll(res.value, TRUE, FailureOf(fault, failing)),
                                     fault # "serialize"),
                      NoSinks)
         /\ UNCHANGED initial

GetRecentItemsTool ==
  \E fault \in {"none", "open", "args", "io1", "io2", "serialize", "format", "encode"},
     limit \in {NoNumber, Arg(1)}, application \in {"", "com.a"}, exclude_images \in BOOLEAN :
    \E failing \in Failing(fault),
       historyItems \in RecentQuery(Db, LimitOf(limit), application, exclude_images) :
      LET res == getRecentItems(Db, historyItems, LimitOf(limit), exclude_images, FailAt(fault))
      IN /\ Invoke([tool |-> "get_recent_items", fault |-> fault, limit |-> limit,
                       application |-> application, exclude_images |-> exclude_images,
                       failing |-> failing],
                      IF fault = "args" THEN NoArguments
                      ELSE Validated(res, "Recent clipboard items",
                                     FormatAll(res.value, ~exclude_images, FailureOf(fault, failing)),
                                     fault # "serialize"),
                      NoSinks)
         /\ UNCHANGED initial

CopyToClipboardTool ==
  \E fault \in {"none", "open", "args", "io1", "io2"}, item_id \in 1..(MaxItems + 1) :
    LET res == copyToClipboard(Db, item_id, FailAt(fault))
    IN /\ Invoke([tool |-> "copy_to_clipboard", fault |-> fault, item_id |-> item_id],
                 IF fault = "args" THEN NoArguments
                 ELSE Unvalidated(res, "Successfully copied item to clipboard", <<>>, TRUE),
                 [clipboard |-> res.value.content, file |-> NoFile])
       /\ UNCHANGED initial

PinItemTool ==
  \E fault \in {"none", "open", "args", "io1"}, item_id \in 1..(MaxItems + 1) :
    /\ Invoke([tool |-> "pin_item", fault |-> fault, item_id |-> item_id],
                 IF fault = "args" THEN NoArguments
                 ELSE Unvalidated(pinItem(Db, item_id, FailAt(fault)),
                                  "Successfully pinned clipboard item", <<>>, TRUE),
                 NoSinks)
    /\ UNCHANGED initial

UnpinItemTool ==
  \E fault \in {"none", "open", "args", "io1"}, item_id \in 1..(MaxItems + 1) :
    /\ Invoke([tool |-> "unpin_item", fault |-> fault, item_id |-> item_id],
                 IF fault = "args" THEN NoArguments
                 ELSE Unvalidated(unpinItem(Db, item_id, FailAt(fault)),
                                  "Successfully unpinned clipboard item", <<>>, TRUE),
                 NoSinks)
    /\ UNCHANGED initial

\* the confirm argument, as JSON: true, false, absent, the string "false", 1
ConfirmValues == {"true", "false", "undefined", "'false'", "1"}

ClearHistoryTool ==
  \E fault \in {"none", "open", "args", "io1", "noresult"}, confirm \in ConfirmValues,
     before_date \in {NoNumber, Arg(EpochOffset + 2)} :
    /\ Invoke([tool |-> "clear_history", fault |-> fault, confirm |-> confirm,
                  before_date |-> before_date],
                 IF fault = "args" THEN NoArguments
                 ELSE Unvalidated(clearHistory(Db, before_date, confirm, FailAt(fault),
                                               fault # "noresult"),
                                  "Successfully cleared clipboard items", <<>>, TRUE),
                 NoSinks)
    /\ UNCHANGED initial

\* the format argument: absent (the default 'json' of line 1018), or a name
FormatOf(format) == IF format = "undefined" THEN "json" ELSE format

ExportHistoryTool ==
  \E fault \in {"none", "open", "args", "nodir", "io1", "io2"},
     format \in {"undefined", "csv", "txt", "xml", "JSON"},
     dateRange \in {NoDateRange, [given |-> TRUE, since |-> Arg(EpochOffset + 2), until |-> NoNumber]} :
    LET res == exportHistory(Db, FormatOf(format), dateRange, fault # "nodir", FailAt(fault))
    IN /\ Invoke([tool |-> "export_history", fault |-> fault, format |-> format,
                  dateRange |-> dateRange],
                 IF fault = "args" THEN NoArguments
                 ELSE Unvalidated(res, "Successfully exported clipboard history", <<>>, TRUE),
                 [clipboard |-> <<>>, file |-> res.value.data])
       /\ UNCHANGED initial

GetClipboardStatsTool ==
  \E fault \in {"none", "open", "io1", "io2"} :
    /\ Invoke([tool |-> "get_clipboard_stats", fault |-> fault],
              Unvalidated(getStatistics(Db, FailAt(fault)), "Clipboard Statistics", <<>>, TRUE),
              NoSinks)
    /\ UNCHANGED initial

\* getItemsByApplication, lines 334-336, and the case of lines 1062-1078
GetItemsByAppTool ==
  \E fault \in {"none", "open", "args", "io1", "serialize", "format", "encode"},
     application \in {"com.a", "com.b"} :
    \E failing \in Failing(fault),
       historyItems \in RecentQuery(Db, LimitOf(NoNumber), application, TRUE) :
      LET res == getRecentItems(Db, historyItems, LimitOf(NoNumber), TRUE, FailAt(fault))
      IN /\ Invoke([tool |-> "get_items_by_app", fault |-> fault, application |-> application,
                       limit |-> NoNumber, failing |-> failing],
                      IF fault = "args" THEN NoArguments
                      ELSE Unvalidated(res, "Found clipboard items from",
                                       FormatAll(res.value, FALSE, FailureOf(fault, failing)),
                                       fault # "serialize"),
                      NoSinks)
         /\ UNCHANGED initial

\* the default case, lines 1080-1081
UnknownTool ==
  \E fault \in {"none", "open"} :
    /\ Invoke([tool |-> "no_such_tool", fault |-> fault],
              Threw(<<"Unknown tool: ", "no_such_tool">>, <<>>, Db), NoSinks)
    /\ UNCHANGED initial

Next ==
  \/ SearchClipboardTool
  \/ GetRecentItemsTool
  \/ CopyToClipboardTool
  \/ PinItemTool
  \/ UnpinItemTool
  \/ ClearHistoryTool
  \/ ExportHistoryTool
  \/ GetClipboardStatsTool
  \/ GetItemsByAppTool
  \/ UnknownTool

Spec == Init /\ [][Next]_vars

(***************************************************************************)
(* Properties of the handler, checked under Spec.                          *)
(***************************************************************************)
OpenEvents == {"open:readonly", "open:readwrite"}
Statements == {"select", "update", "delete"}
Invoked == call.tool # "none"

\* C1: every invocation that opened a store handle closes it exactly once, as the
\* last thing it does, whichever way the case of the switch ended (return,
\* validation error, failed query, failed serialization, unknown tool), and no
\* statement is issued on the handle after the close.
C1_HandleClosedOnce ==
  /\ Invoked /\ call.fault # "open" => events # <<>>
  /\ events # <<>> =>
       /\ events[1] \in OpenEvents
       /\ Cardinality({i \in 1..Len(events) : events[i] \in OpenEvents}) = 1
       /\ Cardinality({i \in 1..Len(events) : events[i] = "close"}) = 1
       /\ events[Len(events)] = "close"
       /\ \A i, j \in 1..Len(events) :
            events[i] = "close" /\ i < j => events[j] \notin Statements

\* C1 witness: a query failed after an earlier one succeeded, the caller got an
\* error response and the handle was closed after the failed statement.
C1_Witness ==
  /\ call.fault = "io2"
  /\ response.isError
  /\ events = <<"open:readonly", "select", "select", "close">>

\* C2: every failure met while a tool invocation is dispatched (opening the handle,
\* reading the arguments, an unknown tool, a failed query, a failed file write,
\* a failed clipboard hand-off) is returned as a response with isError = true whose text carries
\* the message; no exception leaves the handler.
C2_EveryFailureCaught ==
  Invoked =>
    /\ response.kind = "returned"
    /\ (call.fault \in {"open", "args", "io1", "io2", "nodir"} \/ call.tool = "no_such_tool") =>
         response.isError /\ response.text # <<>>

\* C3: the server is read-only except for pin and unpin: after any sequence of
\* tool invocations the history entries (pin markers aside) and the content
\* fragments are those of the start.  (The claim adds that only pin_item and
\* unpin_item open the store writable; line 852 opens it writable for
\* copy_to_clipboard and clear_history too.)
C3_ReadOnlyExceptPin ==
  /\ {[h EXCEPT !.pin = "NULL"] : h \in history} =
       {[h EXCEPT !.pin = "NULL"] : h \in initial.history}
  /\ content = initial.content

\* C4: clear_history without confirm being the boolean true fails with the
\* validation error: no DELETE runs and the response is error-flagged; a DELETE
\* runs only when confirm is the boolean true.
C4_ClearNeedsBooleanTrue ==
  call.tool = "clear_history" /\ call.fault \notin {"open", "args"} =>
    /\ call.confirm # "true" =>
         /\ response.isError
         /\ response.text = <<"Error: ", "This action requires confirmation. Set confirm=true to proceed.">>
    /\ "delete" \in Range(events) => call.confirm = "true"

\* C5: export_history with a format that names none of json, csv and txt (in
\* whatever letter case) fails with the validation error before any I/O: the
\* directory is not probed, no query runs and no file is written.
C5_ExportFormatCheckedFirst ==
  (/\ call.tool = "export_history"
   /\ call.fault \notin {"open", "args"}
   /\ LowerFormat(FormatOf(call.format)) \notin {"json", "csv", "txt"}) =>
    /\ response.isError
    /\ response.text = <<"Error: ", "Unsupported format: ", FormatOf(call.format),
                        ". Supported formats: json, csv, txt">>
    /\ Range(events) \cap {"fs.access", "select", "fs.writeFile"} = {}

(***************************************************************************)
(* SpecSanitize: sanitizeText applied to one text.                         *)
(***************************************************************************)
\* code units of every class the sanitizer tells apart: NUL, tab, line feed,
\* carriage return, 0x1F, 'A', DEL, e-acute, U+200B, a high and a low surrogate
\* (U+1F600 is D83D DE00), U+FEFF, U+FFFD, U+FFFE
SanitizeAlphabet ==
  {0, 9, 10, 13, 31, 65, 127, 233, 8203, 55357, 56832, 65279, 65533, 65534}

EmptyStore == [history |-> {}, content |-> {}]

\* the variables an application of a pure function does not use
Idle(store) ==
  /\ history = store.history
  /\ content = store.content
  /\ initial = store
  /\ events = <<>>
  /\ response = NoResponse
  /\ clipboard = <<>>
  /\ file = NoFile

InitSanitize ==
  /\ Idle(EmptyStore)
  /\ \E s \in SeqsUpTo(SanitizeAlphabet, MaxLen) :
       call = [tool |-> "sanitizeText", fault |-> "none", applied |-> FALSE, text |-> Text(s)]

ApplySanitize ==
  /\ call.tool = "sanitizeText" /\ ~call.applied
  /\ call' = [call EXCEPT !.applied = TRUE]
  /\ response' = [kind |-> "value", value |-> sanitizeText(call.text)]
  /\ UNCHANGED <<history, content, initial, events, clipboard, file>>

\* sanitizeText applied to what it returned
ReapplySanitize ==
  /\ call.tool = "sanitizeText" /\ call.applied
  /\ response.kind = "value"
  /\ response' = [kind |-> "again", first |-> response.value,
                   value |-> sanitizeText(response.value)]
  /\ UNCHANGED <<history, content, initial, call, events, clipboard, file>>

NextSanitize == ApplySanitize \/ ReapplySanitize

SpecSanitize == InitSanitize /\ [][NextSanitize]_vars

Sanitized == call.tool = "sanitizeText" /\ call.applied

\* C10 as claimed: sanitizeText removes exactly the characters 0x00-0x08, 0x0B,
\* 0x0C and 0x0E-0x1F and returns every other character unchanged, in order.
C10_RemovesExactlyC0Controls ==
  Sanitized =>
    response.value = Text(FilterSeq(call.text.data, (0..8) \cup {11, 12} \cup (14..31)))

\* the characters line 83, 93 and 97 delete
C10_Removed ==
  (0..8) \cup {11, 12} \cup (14..31) \cup {127, 65534, 65535, 65279} \cup (8203..8205)

\* C10 amended: sanitizeText removes exactly the characters 0x00-0x08, 0x0B, 0x0C,
\* 0x0E-0x1F, 0x7F, U+200B-U+200D, U+FEFF, U+FFFE and U+FFFF, turns every
\* surrogate code unit (0xD800-0xDFFF) into U+FFFD, and returns every other
\* character unchanged and in the same order (tab, line feed, carriage return and
\* the other characters of the basic plane among them).
C10_RemovesControlsAndMore ==
  Sanitized =>
    LET kept == FilterSeq(call.text.data, C10_Removed)
    IN response.value =
         Text([i \in 1..Len(kept) |->
                 IF kept[i] \in 55296..57343 THEN 65533 ELSE kept[i]])

\* C10 witness: a text with a tab, a DEL and a letter came back as the tab and
\* the letter.
C10_Witness ==
  /\ Sanitized
  /\ call.text = Text(<<9, 127, 65>>)
  /\ response.value = Text(<<9, 65>>)

(***************************************************************************)
(* SpecRecent: getRecentItems applied once to a store.                     *)
(***************************************************************************)
\* an entry with an empty title, an image and a text of a second type
MixedEntry ==
  Shape(Text(<<>>), <<Frag("public.png", Blob(<<137, 80>>)), Frag("public.text", Text(<<98>>))>>)
\* an entry with an empty title whose fragments are a NULL value and an image of
\* a type SQLite's LIKE takes for image/% and JavaScript's startsWith does not
HollowEntry ==
  Shape(Text(<<>>), <<Frag("public.utf8-plain-text", NullValue), Frag("Image/GIF", Blob(<<71>>))>>)

RecentShapes == {TextEntry, ImageEntry, TitleEntry, MixedEntry, HollowEntry}

\* the number of entries of a store of SpecRecent: more than 3 * 1, so that the
\* window of the smallest limit leaves entries out
RecentItems == MaxItems + 2

\* entry i is copied at second i, or (tie) the two oldest at the same second;
\* entry 1 belongs to another application than the rest
RecentStores ==
  {Store([i \in 1..RecentItems |->
            [shape |-> sh[i], ts |-> IF tie /\ i = 1 THEN 2 ELSE i,
             app |-> IF i = 1 THEN "com.b" ELSE "com.a"]]) :
     sh \in [1..RecentItems -> RecentShapes], tie \in BOOLEAN}

\* eighteen entries, entry 1 the newest, every third one an image without title
EveryThirdStore ==
  Store([i \in 1..18 |->
           [shape |-> IF i % 3 = 0 THEN ImageEntry ELSE TextEntry,
            ts |-> 19 - i, app |-> "com.a"]])

RecentCall(limit, application, excludeImages) ==
  [tool |-> "getRecentItems", fault |-> "none", applied |-> FALSE,
   limit |-> limit, application |-> application, excludeImages |-> excludeImages]

InitRecent ==
  \/ \E store \in RecentStores, limit \in {NoNumber} \cup {Arg(n) : n \in 0..MaxLimit},
        application \in {"", "com.a"}, excludeImages \in BOOLEAN :
       /\ Idle(store)
       /\ call = RecentCall(limit, application, excludeImages)
  \/ /\ Idle(EveryThirdStore)
     /\ call = RecentCall(Arg(5), "", TRUE)

ApplyRecent ==
  /\ call.tool = "getRecentItems" /\ ~call.applied
  /\ \E historyItems \in RecentQuery(Db, LimitOf(call.limit), call.application, call.excludeImages) :
       LET res == getRecentItems(Db, historyItems, LimitOf(call.limit), call.excludeImages, 0)
       IN /\ response' = [kind |-> "value", value |-> res.value, historyItems |-> historyItems]
          /\ events' = res.ops
  /\ call' = [call EXCEPT !.applied = TRUE]
  /\ UNCHANGED <<history, content, initial, clipboard, file>>

SpecRecent == InitRecent /\ [][ApplyRecent]_vars

RecentApplied == call.tool = "getRecentItems" /\ call.applied

\* the entries the application filter of the call lets through
RecentCandidates == {h \in history : call.application # "" => h.app = call.application}

\* a content type classified as an image: one of the four exact types or the
\* prefix image/ in any letter case
RecentImage(t) ==
  t \in {"public.png", "public.jpeg", "public.tiff", "com.apple.NSImage",
         "image/gif", "Image/GIF"}

\* an entry qualifies when it has a title or a fragment that is neither NULL
\* nor an image
RecentQualifies(h) ==
  \/ h.title.kind = "text" /\ h.title.data # <<>>
  \/ \E c \in content : c.item = h.id /\ c.value.kind # "null" /\ ~RecentImage(c.type)

\* the number of raw entries whose content was queried: every statement after
\* the history query
RecentExamined == Len(events) - 1

\* C6: with image exclusion on, getRecentItems takes the 3 * limit newest
\* entries as its window, examines them newest first and stops once limit
\* qualifying entries are collected: it returns the first min(limit, q) of the
\* q qualifying entries of the window, none with an image fragment, and with
\* limit 5 on a store whose every third entry is an image without title it
\* returns exactly 5.
C6_RecentWindow ==
  RecentApplied /\ call.excludeImages =>
    LET limit == LimitOf(call.limit)
        rows == response.historyItems
        qual == {i \in 1..Len(rows) : RecentQualifies(rows[i].h)}
        firstQ == {i \in qual : Cardinality({j \in qual : j <= i}) <= limit}
        out == response.value
    IN /\ Len(rows) = Min(3 * limit, Cardinality(RecentCandidates))
       /\ \A i \in 1..Len(rows) : rows[i].h \in RecentCandidates
       /\ \A i, j \in 1..Len(rows) : i < j => rows[i].h # rows[j].h /\ rows[i].h.ts >= rows[j].h.ts
       /\ \A h \in RecentCandidates :
            (\A i \in 1..Len(rows) : rows[i].h # h) =>
              \A i \in 1..Len(rows) : h.ts <= rows[i].h.ts
       /\ RecentExamined <= 3 * limit
       /\ RecentExamined =
            IF Cardinality(qual) >= limit /\ limit > 0
              THEN CHOOSE i \in firstQ : \A j \in firstQ : j <= i
              ELSE Len(rows)
       /\ Len(out) = Min(limit, Cardinality(qual))
       /\ Len(out) = Cardinality(firstQ)
       /\ \A k \in 1..Len(out) :
            \E i \in firstQ : /\ Cardinality({j \in firstQ : j <= i}) = k
                              /\ out[k].id = rows[i].h.id
       /\ \A k \in 1..Len(out) : \A n \in 1..Len(out[k].content) :
            ~RecentImage(out[k].content[n].type)
       /\ (initial = EveryThirdStore /\ limit = 5) => Len(out) = 5

\* C6 witness: limit 5 on the store whose every third entry is an image without
\* title: seven of the fifteen entries of the window were examined and entries
\* 1, 2, 4, 5 and 7 returned.
C6_Witness ==
  /\ RecentApplied /\ call.excludeImages
  /\ initial = EveryThirdStore /\ call.limit = Arg(5)
  /\ Len(response.historyItems) = 15
  /\ RecentExamined = 7
  /\ [k \in 1..Len(response.value) |-> response.value[k].id] = <<1, 2, 4, 5, 7>>

\* the result item of entry h, if there is one
RecentReturned(h) == \E k \in 1..Len(response.value) : response.value[k].id = h.id

\* C7: an examined entry whose content map is empty after image exclusion (an
\* entry without fragments among them) is returned if and only if its title is
\* non-empty, and an examined entry with a fragment left is always returned.
C7_EmptyContentNeedsTitle ==
  RecentApplied =>
    \A i \in 1..RecentExamined :
      LET h == response.historyItems[i].h
          item == RecentItem(initial, h, call.excludeImages)
      IN /\ item.content = <<>> =>
              (RecentReturned(h) <=> (h.title.kind = "text" /\ h.title.data # <<>>))
         /\ item.content # <<>> => RecentReturned(h)

\* C7 witness: with image exclusion on, an examined entry without fragments was
\* returned for its title and two entries with nothing but an image, one without
\* title and one with an empty title, were dropped.
C7_Witness ==
  /\ RecentApplied /\ call.excludeImages
  /\ \E i, j \in 1..RecentExamined :
       LET h == response.historyItems[i].h
           g == response.historyItems[j].h
       IN /\ RecentItem(initial, h, TRUE).content = <<>>
          /\ h.title = Text(<<97>>) /\ RecentReturned(h)
          /\ RecentItem(initial, g, TRUE).content = <<>>
          /\ g.title = NullValue /\ ~RecentReturned(g)
  /\ \E i \in 1..RecentExamined :
       LET e == response.historyItems[i].h
       IN /\ RecentItem(initial, e, TRUE).content = <<>>
          /\ e.title = Text(<<>>) /\ ~RecentReturned(e)

(***************************************************************************)
(* SpecSearch: searchClipboard applied once to a store.                    *)
(***************************************************************************)
\* title "a" and two fragments, neither containing an a
TwoFragmentEntry ==
  Shape(Text(<<97>>), <<Frag("public.utf8-plain-text", Text(<<98>>)),
                        Frag("public.html", Text(<<99>>))>>)
\* title "A" and no fragment
UpperTitleEntry == Shape(Text(<<65>>), <<>>)
\* no title, the plain text "cab"
PlainTextEntry == Shape(NullValue, <<Frag("public.utf8-plain-text", Text(<<99, 97, 98>>))>>)
\* title "c", the text "a" under the second text type
OtherTextEntry == Shape(Text(<<99>>), <<Frag("public.text", Text(<<97>>))>>)
\* title "c", plain text "c" and an image whose bytes contain an a
PictureEntry ==
  Shape(Text(<<99>>), <<Frag("public.utf8-plain-text", Text(<<99>>)),
                        Frag("public.png", Blob(<<137, 97>>))>>)
\* no title, the plain text "b" stored as a BLOB
BlobTextEntry == Shape(NullValue, <<Frag("public.utf8-plain-text", Blob(<<98>>))>>)

SearchShapes ==
  {TwoFragmentEntry, UpperTitleEntry, PlainTextEntry, OtherTextEntry, PictureEntry, BlobTextEntry}

\* entry i is copied at second i, or (tie) the two oldest at the same second;
\* entry 1 belongs to another application than the rest
SearchStores ==
  {Store([i \in 1..MaxItems |->
            [shape |-> sh[i], ts |-> IF tie /\ i = 1 THEN 2 ELSE i,
             app |-> IF i = 1 THEN "com.b" ELSE "com.a"]]) :
     sh \in [1..MaxItems -> SearchShapes], tie \in BOOLEAN}

\* the queries a, A, b, _ and %
SearchQueries == {<<97>>, <<65>>, <<98>>, <<95>>, <<37>>}

\* no other filter, entries copied since second 2, entries of com.a
SearchFilters ==
  {[dateRange |-> NoDateRange, appFilter |-> ""],
   [dateRange |-> [given |-> TRUE, since |-> Arg(EpochOffset + 2), until |-> NoNumber],
    appFilter |-> ""],
   [dateRange |-> NoDateRange, appFilter |-> "com.a"]}

InitSearch ==
  \E store \in SearchStores, query \in SearchQueries,
     limit \in {NoNumber} \cup {Arg(n) : n \in 0..MaxLimit},
     useRegex \in BOOLEAN, f \in SearchFilters :
    /\ Idle(store)
    /\ call = [tool |-> "searchClipboard", fault |-> "none", applied |-> FALSE,
               query |-> query, limit |-> limit, useRegex |-> useRegex,
               dateRange |-> f.dateRange, appFilter |-> f.appFilter]

ApplySearch ==
  /\ call.tool = "searchClipboard" /\ ~call.applied
  /\ \E historyItems \in SearchQuery(Db, call.query, LimitOf(call.limit), call.useRegex,
                                     call.dateRange, call.appFilter) :
       LET res == searchClipboard(Db, historyItems, 0)
       IN /\ response' = [kind |-> "value", value |-> res.value, historyItems |-> historyItems]
          /\ events' = res.ops
  /\ call' = [call EXCEPT !.applied = TRUE]
  /\ UNCHANGED <<history, content, initial, clipboard, file>>

SpecSearch == InitSearch /\ [][ApplySearch]_vars

SearchApplied == call.tool = "searchClipboard" /\ call.applied

\* the entries the date and application filters of the call let through
SearchCandidates ==
  {h \in history :
     /\ call.dateRange.given /\ call.dateRange.since.given =>
          h.ts + 978307200 >= call.dateRange.since.v
     /\ call.dateRange.given /\ call.dateRange.until.given =>
          h.ts + 978307200 <= call.dateRange.until.v
     /\ call.appFilter # "" => h.app = call.appFilter}

\* the query matches the entry as SQLite's LIKE matches the pattern %query%,
\* against the title or the value of a public.utf8-plain-text fragment
SearchLikes(h) ==
  \/ SqlLike(h.title, <<37>> \o call.query \o <<37>>)
  \/ \E c \in content : /\ c.item = h.id
                        /\ c.type = "public.utf8-plain-text"
                        /\ SqlLike(c.value, <<37>> \o call.query \o <<37>>)

SearchReturned(h) == \E k \in 1..Len(response.value) : response.value[k].id = h.id

\* C8: searchClipboard returns the qualifying entries newest first, at most
\* limit of them and the newest ones, and an entry that qualifies through
\* several of its fragments appears once.
C8_SearchNewestOnce ==
  SearchApplied =>
    LET out == response.value
        qualifying == {h \in SearchCandidates : SearchLikes(h)}
    IN /\ \A i, j \in 1..Len(out) : i < j => out[i].id # out[j].id
       /\ \A i, j \in 1..Len(out) : i < j => out[i].lastCopied >= out[j].lastCopied
       /\ \A k \in 1..Len(out) : \E h \in qualifying : h.id = out[k].id
       /\ Len(out) = Min(LimitOf(call.limit), Cardinality(qualifying))
       /\ \A h \in qualifying : ~SearchReturned(h) =>
            \A k \in 1..Len(out) : h.ts + 978307200 <= out[k].lastCopied

\* C8 witness: both entries qualify, the newer through its title on each of its
\* two fragment rows; with limit 1 it is returned, once, and the older left out.
C8_Witness ==
  /\ SearchApplied
  /\ call.query = <<97>> /\ call.limit = Arg(1) /\ call.appFilter = ""
  /\ ~call.dateRange.given
  /\ \A h \in history : SearchLikes(h)
  /\ \E h \in history :
       /\ h.ts = MaxItems
       /\ Cardinality({c \in content : c.item = h.id}) = 2
       /\ [k \in 1..Len(response.value) |-> response.value[k].id] = <<h.id>>

\* q occurs in s, character for character
Contains(q, s) == \E k \in 0..(Len(s) - Len(q)) : SubSeq(s, k + 1, k + Len(q)) = q

\* the query is a case-sensitive substring of the title or of a fragment
\* classified as text (one that is not an image)
SearchContains(h) ==
  \/ h.title.kind # "null" /\ Contains(call.query, h.title.data)
  \/ \E c \in content : /\ c.item = h.id
                        /\ c.value.kind # "null"
                        /\ c.type \notin {"public.png", "public.jpeg", "public.tiff",
                                          "com.apple.NSImage", "image/gif", "Image/GIF"}
                        /\ Contains(call.query, c.value.data)

\* what searchClipboard returns with useRegex the other way round
SearchOtherMode ==
  {searchClipboard(initial, rows, 0).value :
     rows \in SearchQuery(initial, call.query, LimitOf(call.limit), ~call.useRegex,
                          call.dateRange, call.appFilter)}

PairStarts(s) == {i \in 1..(Len(s) - 1) : s[i] \in 55296..56319 /\ s[i + 1] \in 56320..57343}

\* the positions of s that hold a surrogate code unit outside any pair
Unpaired(s) ==
  {i \in 1..Len(s) : s[i] \in 55296..57343 /\ i \notin PairStarts(s) /\ i - 1 \notin PairStarts(s)}

\* C11: sanitizeText leaves a correctly paired high and low surrogate (an emoji)
\* as it is: each pair of the input is in the output, and U+FFFD is written
\* only in place of unpaired surrogate code units.
C11_PairedSurrogatesUntouched ==
  Sanitized /\ response.kind = "value" =>
    LET in == call.text.data
        out == response.value.data
    IN /\ \A i \in PairStarts(in) :
            \E j \in 1..(Len(out) - 1) : out[j] = in[i] /\ out[j + 1] = in[i + 1]
       /\ Cardinality({j \in 1..Len(out) : out[j] = 65533}) <=
            Cardinality({i \in 1..Len(in) : in[i] = 65533}) + Cardinality(Unpaired(in))

\* C12: sanitizeText is idempotent: applied to its own result it returns that
\* result.
C12_SanitizeIdempotent ==
  call.tool = "sanitizeText" /\ response.kind = "again" => response.value = response.first

\* C12 witness: the first application removed a DEL and replaced a surrogate, the
\* second changed nothing.
C12_Witness ==
  /\ call.tool = "sanitizeText" /\ response.kind = "again"
  /\ call.text = Text(<<127, 55357, 65>>)
  /\ response.first = Text(<<65533, 65>>)
  /\ response.value = Text(<<65533, 65>>)

(***************************************************************************)
(* SpecReaders: each reader of the store applied once to a store of one    *)
(* entry (id 1) whose fragments are of every kind.                         *)
(***************************************************************************)
\* the content types of the entry, in the order of their rows
ReaderTypes ==
  <<"public.utf8-plain-text", "public.text", "public.png", "com.apple.NSImage", "image/gif">>

Absent == [kind |-> "absent", data |-> <<>>]

\* what the store may hold under a type: no row, NULL, a text or a BLOB; the
\* texts hold a NUL, and the letter tells the sources apart (a, b: the two text
\* types; c: the title)
ReaderValues(t) ==
  CASE t = "public.utf8-plain-text" ->
         {Absent, NullValue, Text(<<>>), Text(<<97, 0>>), Blob(<<97, 0>>)}
    [] t = "public.text" ->
         {Absent, NullValue, Text(<<>>), Text(<<98, 0>>), Blob(<<98, 0>>)}
    [] OTHER -> {Absent, Text(<<120, 0>>), Blob(<<137, 0>>)}

ReaderTitles == {NullValue, Text(<<>>), Text(<<99, 0>>)}

\* the fragments of an entry that holds value v[i] under ReaderTypes[i]
ReaderFrags(v) ==
  LET idx == SelectSeq([i \in 1..Len(ReaderTypes) |-> i], LAMBDA i : v[i] # Absent)
  IN [k \in 1..Len(idx) |-> Frag(ReaderTypes[idx[k]], v[idx[k]])]

ReaderStores ==
  {Store(<<[shape |-> Shape(title, ReaderFrags(v)), ts |-> 1, app |-> "com.a"]>>) :
     title \in ReaderTitles,
     v \in {w \in [1..Len(ReaderTypes) -> UNION {ReaderValues(ReaderTypes[i]) : i \in 1..Len(ReaderTypes)}] :
              \A i \in 1..Len(ReaderTypes) : w[i] \in ReaderValues(ReaderTypes[i])}}

InitReaders ==
  \E store \in ReaderStores :
    /\ Idle(store)
    /\ call = [tool |-> "none", fault |-> "none", applied |-> FALSE]

\* what a reader returned: its items, and the blocks formatClipboardItem makes of
\* them where the handler formats them
Read(c, res, blocks) ==
  /\ call.tool = "none"
  /\ call' = c @@ [fault |-> "none", applied |-> TRUE]
  /\ response' = [kind |-> "value", threw |-> res.threw, error |-> res.error,
                  value |-> res.value, blocks |-> blocks]
  /\ events' = res.ops
  /\ UNCHANGED <<history, content, initial, file>>

\* searchClipboard('%'): every entry with a title or a plain text
ReadSearch ==
  \E historyItems \in SearchQuery(Db, <<37>>, DefaultLimit, FALSE, NoDateRange, "") :
    LET res == searchClipboard(Db, historyItems, 0)
    IN /\ Read([tool |-> "searchClipboard"], res, FormatAll(res.value, TRUE, NoFailure))
       /\ UNCHANGED clipboard

ReadRecent ==
  \E excludeImages \in BOOLEAN :
    \E historyItems \in RecentQuery(Db, DefaultLimit, "", excludeImages) :
      LET res == getRecentItems(Db, historyItems, DefaultLimit, excludeImages, 0)
      IN /\ Read([tool |-> "getRecentItems", excludeImages |-> excludeImages], res,
                 FormatAll(res.value, ~excludeImages, NoFailure))
         /\ UNCHANGED clipboard

\* getItemById of the entry (1) and of an id no entry has (2)
ReadById ==
  \E id \in {1, 2} :
    /\ Read([tool |-> "getItemById", id |-> id], getItemById(Db, id, 0), <<>>)
    /\ UNCHANGED clipboard

ReadExport ==
  \E format \in {"json", "csv", "txt"} :
    /\ Read([tool |-> "exportHistory", format |-> format],
            exportHistory(Db, format, NoDateRange, TRUE, 0), <<>>)
    /\ UNCHANGED clipboard

ReadCopy ==
  \E id \in {1, 2} :
    LET res == copyToClipboard(Db, id, 0)
    IN /\ Read([tool |-> "copyToClipboard", id |-> id], res, <<>>)
       /\ clipboard' = IF res.threw THEN <<>> ELSE res.value.content

NextReaders == ReadSearch \/ ReadRecent \/ ReadById \/ ReadExport \/ ReadCopy

SpecReaders == InitReaders /\ [][NextReaders]_vars

\* the items the reader of this state returned with their content maps (the
\* items exportHistory serializes are visible in its json data)
ReadItems ==
  CASE call.tool \in {"searchClipboard", "getRecentItems"} -> response.value
    [] call.tool = "getItemById" ->
         IF response.value.found THEN <<response.value.item>> ELSE <<>>
    [] call.tool = "exportHistory" /\ call.format = "json" -> response.value.data.rows
    [] OTHER -> <<>>

\* the stored fragments of the item: an image-classified type and a binary value
ImageBlobs(item) ==
  {c \in content :
     /\ c.item = item.id
     /\ c.type \in {"public.png", "public.jpeg", "public.tiff", "com.apple.NSImage", "image/gif"}
     /\ c.value.kind = "blob"}

\* the content map of the item holds value v under type t
Holds(item, t, v) ==
  \E i \in 1..Len(item.content) : item.content[i].type = t /\ item.content[i].value = v

\* C13 as claimed: the value searchClipboard, getRecentItems (images not
\* excluded), getItemById and exportHistory place in the content map for a
\* binary fragment of an image-classified type is byte-identical to the
\* stored value.
C13_ImageBytesIdentical ==
  (call.applied /\ ~(call.tool = "getRecentItems" /\ call.excludeImages)) =>
    \A k \in 1..Len(ReadItems) :
      \A c \in ImageBlobs(ReadItems[k]) : Holds(ReadItems[k], c.type, c.value)

\* C13 amended: searchClipboard, getRecentItems (images not excluded) and
\* getItemById place the stored bytes in the content map unchanged;
\* exportHistory places a text there instead of the bytes, which for
\* public.png, public.jpeg, public.tiff and image/* is the placeholder
\* [Binary data: n bytes] with n the number of bytes.
C13_ImageBytesIdenticalButExport ==
  (call.applied /\ ~(call.tool = "getRecentItems" /\ call.excludeImages)) =>
    \A k \in 1..Len(ReadItems) :
      \A c \in ImageBlobs(ReadItems[k]) :
        IF call.tool = "exportHistory"
          THEN /\ \E i \in 1..Len(ReadItems[k].content) :
                    /\ ReadItems[k].content[i].type = c.type
                    /\ ReadItems[k].content[i].value.kind = "text"
               /\ c.type # "com.apple.NSImage" =>
                    Holds(ReadItems[k], c.type, Text(<<91, 66, Len(c.value.data)>>))
          ELSE Holds(ReadItems[k], c.type, c.value)

\* C13 witness: getItemById returned the png, NSImage and gif bytes of the entry
\* as they are stored.
C13_Witness ==
  /\ call.applied /\ call.tool = "getItemById"
  /\ Len(ReadItems) = 1
  /\ Cardinality(ImageBlobs(ReadItems[1])) = 3
  /\ \A c \in ImageBlobs(ReadItems[1]) :
       c.value = Blob(<<137, 0>>) /\ Holds(ReadItems[1], c.type, c.value)

\* C14: in every item searchClipboard, getRecentItems and getItemById return, a
\* value under a text-classified type (one that is no image type) is a
\* sanitized string, whether the store held it as text or as a BLOB, and a
\* binary value under an image type is the stored one.
C14_TextValuesSanitized ==
  (call.applied /\ call.tool \in {"searchClipboard", "getRecentItems", "getItemById"}) =>
    \A k \in 1..Len(ReadItems) :
      /\ \A i \in 1..Len(ReadItems[k].content) :
           LET e == ReadItems[k].content[i]
           IN e.type \in {"public.utf8-plain-text", "public.text"} =>
                /\ e.value.kind = "text"
                /\ \A j \in 1..Len(e.value.data) :
                     e.value.data[j] \notin C10_Removed \cup (55296..57343)
      /\ \A i \in 1..Len(ReadItems[k].content) :
           LET e == ReadItems[k].content[i]
           IN e.value.kind = "blob" =>
                \E c \in content : c.item = ReadItems[k].id /\ c.type = e.type /\ c.value = e.value

\* the entry holds a non-empty value under content type t
HasText(t) ==
  \E c \in content : c.item = 1 /\ c.type = t /\ c.value.kind \in {"text", "blob"}
                                /\ c.value.data # <<>>

\* the letter of the source the precedence rule selects: a for
\* public.utf8-plain-text, b for public.text, c for the title, 0 for none
PrimaryLetter ==
  IF HasText("public.utf8-plain-text") THEN 97
  ELSE IF HasText("public.text") THEN 98
  ELSE IF \E h \in history : h.id = 1 /\ h.title.kind = "text" /\ h.title.data # <<>> THEN 99
  ELSE 0

\* the consumers of the text representation: the summary block of a search or
\* recent item, the text copied, the text column of a csv or txt export row
IsTextConsumer ==
  /\ call.applied
  /\ \/ call.tool \in {"searchClipboard", "getRecentItems"} /\ Len(response.value) = 1
     \/ call.tool = "copyToClipboard" /\ call.id = 1 /\ ~response.threw
     \/ call.tool = "exportHistory" /\ call.format \in {"csv", "txt"}

ConsumerText ==
  CASE call.tool \in {"searchClipboard", "getRecentItems"} -> response.blocks[1].text
    [] call.tool = "copyToClipboard" -> clipboard
    [] OTHER -> response.value.data.rows[1].text.data

\* C15: the text representation of an item is the first non-empty of
\* content['public.utf8-plain-text'], content['public.text'] and title, for each
\* of its consumers: the summary of formatClipboardItem, the text
\* copyToClipboard copies, and the csv and txt rows of exportHistory.
C15_TextPrecedence ==
  IsTextConsumer =>
    IF PrimaryLetter = 0 THEN ConsumerText = <<>>
    ELSE \E j \in 1..Len(ConsumerText) : ConsumerText[j] = PrimaryLetter

\* C16: copy_to_clipboard supports images: an item with an image fragment is
\* copied rather than rejected, and when it has no text fragment and no title
\* what is handed to the clipboard sink is the first present of public.png,
\* public.jpeg and public.tiff.
C16_CopySupportsImages ==
  (call.applied /\ call.tool = "copyToClipboard" /\ call.id = 1) =>
    \A c \in content :
      (c.item = 1 /\ c.type = "public.png" /\ c.value.kind = "blob") =>
        /\ ~response.threw
        /\ PrimaryLetter = 0 => clipboard = c.value.data


\* ---------------------------------------------------------------------------
\* Per-item isolation in batch responses
\* ---------------------------------------------------------------------------

BatchTools == {"search_clipboard", "get_recent_items", "get_items_by_app"}

\* the item sequences the invocation in call may have read
Batch ==
  CASE call.tool = "search_clipboard" ->
         {searchClipboard(Db, hi, 0).value :
            hi \in SearchQuery(Db, call.query, LimitOf(call.limit), call.use_regex,
                               call.dateRange, call.app_filter)}
    [] call.tool = "get_recent_items" ->
         {getRecentItems(Db, hi, LimitOf(call.limit), call.exclude_images, 0).value :
            hi \in RecentQuery(Db, LimitOf(call.limit), call.application, call.exclude_images)}
    [] call.tool = "get_items_by_app" ->
         {getRecentItems(Db, hi, LimitOf(call.limit), TRUE, 0).value :
            hi \in RecentQuery(Db, LimitOf(call.limit), call.application, TRUE)}
    [] OTHER -> {}

BatchImages ==
  CASE call.tool = "search_clipboard" -> TRUE
    [] call.tool = "get_recent_items" -> ~call.exclude_images
    [] OTHER -> FALSE

ImageEntries(item) == SelectSeq(item.content, LAMBDA e : IsImageType(e.type))

\* formatting the item raised an exception during the invocation in call
FormatFailed(item) ==
  /\ call.tool \in BatchTools
  /\ item.id = call.failing
  /\ \/ call.fault = "format"
     \/ call.fault = "encode" /\ BatchImages /\ ImageEntries(item) # <<>>

BlocksOf(id) == SelectSeq(response.blocks, LAMBDA b : b.id = id)

\* the other items of the batch are fully formatted, in order, and the call succeeds
OthersIntact(items) ==
  /\ response.kind = "returned"
  /\ ~response.isError
  /\ SelectSeq(response.blocks, LAMBDA b : b.id # call.failing)
       = FormatAll(SelectSeq(items, LAMBDA i : i.id # call.failing), BatchImages, NoFailure)

\* one text block naming the id of the item and the message of the error
OnePlaceholder(item) ==
  /\ Len(BlocksOf(item.id)) = 1
  /\ BlocksOf(item.id)[1].type = "text"
  /\ "error" \in DOMAIN BlocksOf(item.id)[1]
  /\ Len(BlocksOf(item.id)[1].error) = 4
  /\ BlocksOf(item.id)[1].error[2] = item.id
  /\ BlocksOf(item.id)[1].error[4] = "error.message"

\* the summary of the item, then one text block per image naming its type and the message
ImagePlaceholders(item) ==
  /\ Len(BlocksOf(item.id)) = 1 + Len(ImageEntries(item))
  /\ BlocksOf(item.id)[1] = ItemBlock(item)
  /\ \A k \in 1..Len(ImageEntries(item)) :
       LET b == BlocksOf(item.id)[k + 1]
       IN /\ b.type = "text"
          /\ "error" \in DOMAIN b
          /\ Len(b.error) = 7
          /\ b.error[2] = ImageEntries(item)[k].type
          /\ b.error[6] = "error.message"

ReadTool ==
  /\ call.tool = "none"
  /\ SearchClipboardTool \/ CopyToClipboardTool \/ GetItemsByAppTool

NextLookup == ReadById \/ ReadCopy \/ ReadTool

\* the lookups by id and the list queries, each applied once, by method and by tool
SpecLookup == InitReaders /\ [][NextLookup]_vars

NoEntry(id) == \A h \in history : h.id # id

\* no stored text holds a z and no entry was copied from com.b
MatchesNothing ==
  /\ call.fault = "none"
  /\ \/ call.tool = "search_clipboard" /\ call.query = <<122>>
     \/ call.tool = "get_items_by_app" /\ call.application = "com.b"

\* C18: getItemById of an id no entry has returns null; copy_to_clipboard of such
\* an id answers with an error-flagged "not found" response and hands nothing to
\* the clipboard; a list query matching nothing answers with no items and no
\* error; an entry without fragments is found, with an empty content map
C18_NotFoundAndEmpty ==
  /\ call.tool = "getItemById" /\ NoEntry(call.id)
       => ~response.threw /\ response.value = [found |-> FALSE]
  /\ call.tool = "copyToClipboard" /\ NoEntry(call.id)
       => /\ response.threw
          /\ response.error = <<"Item with ID ", call.id, " not found">>
          /\ clipboard = <<>>
          /\ events = <<"select">>
  /\ call.tool = "copy_to_clipboard" /\ call.fault = "none" /\ NoEntry(call.item_id)
       => /\ response.kind = "returned"
          /\ response.isError
          /\ response.text = <<"Error: ", "Item with ID ", call.item_id, " not found">>
          /\ clipboard = <<>>
          /\ events = <<"open:readwrite", "select", "close">>
  /\ MatchesNothing
       => response.kind = "returned" /\ ~response.isError /\ response.blocks = <<>>
  /\ call.tool = "getItemById" /\ ~NoEntry(call.id) /\ content = {}
       => /\ ~response.threw
          /\ response.value.found
          /\ response.value.item.id = call.id
          /\ response.value.item.content = <<>>

C18_Witness ==
  /\ call.tool = "getItemById"
  /\ call.id = 1
  /\ content = {}
  /\ \E h \in history : h.id = 1 /\ h.title = Text(<<99, 0>>)
  /\ response.value.found
  /\ response.value.item.title = Text(<<99>>)
  /\ response.value.item.content = <<>>

\* ---------------------------------------------------------------------------
\* Pinning
\* ---------------------------------------------------------------------------

\* the step is an invocation of the tool that met no fault
Ran(tool) == call'.tool = tool /\ call'.fault = "none"

WithoutPin(rows) == {[h EXCEPT !.pin = "NULL"] : h \in rows}

\* nothing but the pin marker of entry id differs between the two states
OnlyPinOf(id) ==
  /\ content' = content
  /\ WithoutPin(history') = WithoutPin(history)
  /\ \A h \in history : h.id # id => h \in history'

\* what a read of the entry after the step says of its pin
ReadsPinned(id) == getItemById(Db', id, 0).value.item.pinned

\* C19: pin_item and unpin_item change nothing but the pin marker of the entry
\* they name; the entry reads pinned after pin_item and not pinned after
\* unpin_item, whatever it read before
C19_OnlyPinChanges ==
  [][/\ Ran("pin_item") =>
          /\ OnlyPinOf(call'.item_id)
          /\ ~response'.isError
          /\ \A h \in history : h.id = call'.item_id => ReadsPinned(h.id)
     /\ Ran("unpin_item") =>
          /\ OnlyPinOf(call'.item_id)
          /\ ~response'.isError
          /\ \A h \in history : h.id = call'.item_id => ~ReadsPinned(h.id)]_vars

\* entry 1 has been unpinned while entry 2 stays pinned
C19_Witness ==
  /\ call.tool = "unpin_item"
  /\ call.fault = "none"
  /\ call.item_id = 1
  /\ \E h \in history : h.id = 1 /\ h.pin = "NULL"
  /\ \E h \in history : h.id = 2 /\ h.pin # "NULL"
  /\ getItemById(Db, 2, 0).value.item.pinned
  /\ ~getItemById(Db, 1, 0).value.item.pinned

\* ---------------------------------------------------------------------------
\* Responses that cannot be serialized
\* ---------------------------------------------------------------------------

\* C20: in every tool that assembles item blocks (search_clipboard,
\* get_recent_items, get_items_by_app) a response that cannot be serialized is
\* caught and answered with an error-flagged response
C20_UnserializableCaught ==
  call.tool \in BatchTools /\ call.fault = "serialize"
    => /\ response.kind = "returned"
       /\ response.isError
       /\ response.serializable
       /\ response.text = <<"Error: ", "Response serialization failed: ", "jsonError.message">>

\* ---------------------------------------------------------------------------
\* Timestamps: convertTimestamp and the date filters
\* ---------------------------------------------------------------------------

\* the timestamps of the entry under conversion: around the source epoch, the
\* standard epoch (-978307200) and a recent date
TimeStamps == (-MaxTime..MaxTime) \cup {-EpochOffset, 1000000000}

\* three titled entries copied at t - 1 (id 1), t + 1 (id 2) and t (id 3)
TimeStore(t) ==
  Store(<<[shape |-> TitleEntry, ts |-> t - 1, app |-> "com.a"],
          [shape |-> TitleEntry, ts |-> t + 1, app |-> "com.a"],
          [shape |-> TitleEntry, ts |-> t, app |-> "com.a"]>>)

InitTime ==
  \E t \in TimeStamps :
    /\ Idle(TimeStore(t))
    /\ call = [tool |-> "none", fault |-> "none", t |-> t]

\* entry 3 is read: its lastCopied is convertTimestamp of its ZLASTCOPIEDAT
ConvertTime ==
  /\ call.tool = "none"
  /\ call' = [call EXCEPT !.tool = "convertTimestamp"]
  /\ response' = [kind |-> "date", value |-> getItemById(Db, 3, 0).value.item.lastCopied]
  /\ events' = <<"select">>
  /\ UNCHANGED <<history, content, initial, clipboard, file>>

\* the Date read is passed back as a bound of the date filter of a reader
FilterTime ==
  /\ call.tool = "convertTimestamp"
  /\ \E reader \in {"searchClipboard", "exportHistory"}, since \in BOOLEAN, until \in BOOLEAN :
       LET dateRange == [given |-> TRUE,
                         since |-> IF since THEN Arg(response.value) ELSE NoNumber,
                         until |-> IF until THEN Arg(response.value) ELSE NoNumber]
       IN /\ since \/ until
          /\ call' = [tool |-> reader, fault |-> "none", t |-> call.t, date |-> response.value,
                      since |-> since, until |-> until]
          /\ IF reader = "searchClipboard"
               THEN \E historyItems \in SearchQuery(Db, <<97>>, DefaultLimit, FALSE, dateRange, "") :
                      LET res == searchClipboard(Db, historyItems, 0)
                      IN /\ response' = [kind |-> "ids",
                                         value |-> [i \in 1..Len(res.value) |-> res.value[i].id]]
                         /\ events' = res.ops
               ELSE LET res == exportHistory(Db, "json", dateRange, TRUE, 0)
                    IN /\ response' = [kind |-> "ids",
                                       value |-> [i \in 1..Len(res.value.data.rows) |->
                                                    res.value.data.rows[i].id]]
                       /\ events' = res.ops
  /\ UNCHANGED <<history, content, initial, clipboard, file>>

NextTime == ConvertTime \/ FilterTime

SpecTime == InitTime /\ [][NextTime]_vars

ExportEntries == MaxItems + 1

\* entries with no, one and two fragments, copied at distinct seconds in any
\* order of their ids
ExportStores ==
  {Store([i \in 1..ExportEntries |-> [shape |-> sh[i], ts |-> ts[i], app |-> "com.a"]]) :
     sh \in [1..ExportEntries -> {TitleEntry, TextEntry, MixedEntry}],
     ts \in {f \in [1..ExportEntries -> 1..ExportEntries] :
               \A i, j \in 1..ExportEntries : f[i] = f[j] => i = j}}

\* no range, since second 2, until second 2, second 2 only
ExportDateRanges ==
  {NoDateRange,
   [given |-> TRUE, since |-> Arg(EpochOffset + 2), until |-> NoNumber],
   [given |-> TRUE, since |-> NoNumber, until |-> Arg(EpochOffset + 2)],
   [given |-> TRUE, since |-> Arg(EpochOffset + 2), until |-> Arg(EpochOffset + 2)]}

InitExport ==
  \E store \in ExportStores, format \in {"json", "csv", "txt"}, dateRange \in ExportDateRanges :
    /\ Idle(store)
    /\ call = [tool |-> "exportHistory", fault |-> "none", applied |-> FALSE,
               format |-> format, dateRange |-> dateRange]

ApplyExport ==
  /\ ~call.applied
  /\ LET res == exportHistory(Db, call.format, call.dateRange, TRUE, 0)
     IN /\ response' = [kind |-> "value", threw |-> res.threw, value |-> res.value]
        /\ events' = res.ops
        /\ file' = res.value.data
  /\ call' = [call EXCEPT !.applied = TRUE]
  /\ UNCHANGED <<history, content, initial, clipboard>>

SpecExport == InitExport /\ [][ApplyExport]_vars

\* the entries copied within the range, both ends included
ExportInRange ==
  {h \in history :
     /\ call.dateRange.since.given => h.ts + 978307200 >= call.dateRange.since.v
     /\ call.dateRange.until.given => h.ts + 978307200 <= call.dateRange.until.v}

ExportedIds == [i \in 1..Len(file.rows) |-> file.rows[i].id]

CopiedAt(id) == (CHOOSE h \in history : h.id = id).ts

\* C22: exportHistory writes every entry of the date range (both ends included)
\* exactly once, itemCount is the number of these entries, and the entries are
\* written newest first, whatever their ids and the number of their fragments
C22_ExportOnceNewestFirst ==
  call.applied =>
    /\ Len(ExportedIds) = Cardinality(ExportInRange)
    /\ Range(ExportedIds) = {h.id : h \in ExportInRange}
    /\ response.value.itemCount = Cardinality(ExportInRange)
    /\ \A i, j \in 1..Len(ExportedIds) :
         i < j => CopiedAt(ExportedIds[i]) > CopiedAt(ExportedIds[j])

====
